---- MODULE Spec2Model ----
(***************************************************************************)
(* PjPlots: the N-dimensional array (ArrayNd / Mat2) over a static or      *)
(* dynamic 2-D shape, and the ResultWithValue success/failure container.   *)
(***************************************************************************)
EXTENDS Integers, Sequences, FiniteSets, TLC

\* ------------------------------------------------------------------ bounds
MaxExt == 2          \* largest extent of a shape
MaxVal == 1          \* element values are 0..MaxVal
MaxWrites == 2       \* writes performed on one array before the run stops writing
MaxChar == 2         \* message characters are 0..MaxChar, 0 being the NUL character
MaxMsgLen == 3       \* longest failure message
MaxUnwraps == 3      \* get_value() calls made on one result
MaxRaw == 3          \* raw integers cast to Colour are -1..MaxRaw

\* size_t is modelled SizeBits wide; extents up to MaxExt+1 never wrap in it
SizeBits == 6
SizeMod == 2 ^ SizeBits

Values == 0 .. MaxVal
Extents == 0 .. MaxExt
Indices == 0 .. MaxExt      \* index arguments: in range and, on every shape, out of range

\* ------------------------------------------------------------------ shapes
\* StaticSize2<Rows, Cols>
StaticSize2(Rows, Cols) == [static |-> TRUE, m_rows |-> Rows, m_cols |-> Cols]

\* DynamicSize2(rows, cols)
DynamicSize2(r, c) == [static |-> FALSE, m_rows |-> r, m_cols |-> c]

Sizes == { StaticSize2(r, c) : r \in Extents, c \in Extents }
           \cup { DynamicSize2(r, c) : r \in Extents, c \in Extents }

rows(size) == size.m_rows
cols(size) == size.m_cols

\* Size::nele(): Rows*Cols, in size_t arithmetic
nele(size) == (rows(size) * cols(size)) % SizeMod

\* a capacity that adds the extents
get_static_nele_Sum(size) == IF size.static THEN (rows(size) + cols(size)) % SizeMod ELSE 0

\* get_static_nele<Size>(): the capacity of the std::array of a static shape
get_static_nele(size) == IF size.static THEN (rows(size) * cols(size)) % SizeMod ELSE 0

\* StaticSize1<Length>
StaticSize1(Length) == [static |-> TRUE, m_length |-> Length]

\* DynamicSize1(length)
DynamicSize1(len) == [static |-> FALSE, m_length |-> len]

\* every shape type the header declares, one and two dimensional
Shapes == Sizes \cup { StaticSize1(l) : l \in Extents } \cup { DynamicSize1(l) : l \in Extents }

\* Size::dims
Size_dims(size) == IF "m_length" \in DOMAIN size THEN 1 ELSE 2

\* concept Size2: is_size_type, rows(), cols() and dims == 2
Size2(size) == {"m_rows", "m_cols"} \subseteq DOMAIN size /\ Size_dims(size) = 2

\* v_AllowedTypes
AllowedTypes == {"int", "uint8_t", "uint32_t", "float", "double", "RGBA"}

\* StorageType<T, Size>: std::array<T, get_static_nele<Size>()> for a static
\* shape, std::vector<T> for a dynamic one; the alias requires Size2<Size>
\* and naming it with any other shape is ill-formed
StorageType(T, size) ==
    IF ~Size2(size) THEN [kind |-> "ill-formed", T |-> T, N |-> 0]
    ELSE IF size.static THEN [kind |-> "std::array", T |-> T, N |-> get_static_nele(size)]
    ELSE [kind |-> "std::vector", T |-> T, N |-> 0]

\* value-initialisation of an element: T() is all-zero for every allowed type
ValueInit == 0

\* storage whose elements are left as they were found
ConstructStorage_Uninit(size) == [k \in 1 .. nele(size) |-> MaxVal]

\* ArrayNd(Size) constructors: m_data() for a static shape (a value-initialised
\* std::array of get_static_nele elements), std::vector<T>(size.nele()) for a
\* dynamic one
ConstructStorage(size) ==
    IF size.static
    THEN [k \in 1 .. get_static_nele(size) |-> ValueInit]
    ELSE [k \in 1 .. nele(size) |-> ValueInit]

\* a column-major offset
calculate_linear_idx_ColMajor(dims, row, col) ==
    LET col_idx == (col * rows(dims)) % SizeMod
    IN  (col_idx + row) % SizeMod

\* calculate_linear_idx(Size2 dims, row, col).  The two range tests are
\* `if constexpr` statements: they are not run-time branches, so no test is
\* made on a run-time row or col and the throw is never reached.
calculate_linear_idx(dims, row, col) ==
    LET row_idx == (row * cols(dims)) % SizeMod
    IN  (row_idx + col) % SizeMod

\* ------------------------------------------------------------------- state
VARIABLES
    m_size,     \* ArrayNd::m_size
    m_data,     \* ArrayNd::m_data, offset k is m_data[k+1]
    other,      \* a second array object made by copying (img2 = img)
    last,       \* the latest operation, when it was an indexed access, and what it produced
    nw,         \* writes performed so far
    it,         \* the iterator of the running range-for loop
    visited,    \* offsets the loop has visited
    yielded,    \* elements the loop has yielded, while no write came between
    prev,       \* elements the previous completed loop yielded, while no write followed
    res,        \* a ResultWithValue object
    unwrap,     \* what the last get_value() call on res produced
    rcopy,      \* a second ResultWithValue object made by copying res
    opts,       \* an AppearanceOptions object the caller holds
    builder,    \* a Factory object
    rop,        \* the latest operation on a result or on appearance options, and what it raised
    inst,       \* an instantiation of StorageType<T, Size>
    names,      \* two instantiations of to_string<T>()
    build,      \* a build of the header
    plot,       \* the latest get_plot call and the image it returned or was given
    params      \* a Chart::Params object

optVars == <<rcopy, opts, builder, rop>>

auxVars == <<names, build, plot, params>>

vars == <<m_size, m_data, other, last, nw, it, visited, yielded, prev, res, unwrap,
          rcopy, opts, builder, rop, inst, names, build, plot, params>>

NoVal == -1
NoAccess == [op |-> "none", const |-> FALSE, row |-> 0, col |-> 0, off |-> 0,
             outcome |-> "none", val |-> NoVal, wrote |-> NoVal]
NoIter == [state |-> "none", write |-> FALSE, pos |-> 0, clean |-> TRUE]
NoPrev == [valid |-> FALSE, seq |-> << >>]
NoArray == [exists |-> FALSE, m_size |-> StaticSize2(0, 0), m_data |-> << >>]
NoResult == [index |-> NoVal, value |-> NoVal, m_message |-> << >>, arg |-> NoVal, msg |-> << >>]
NoUnwrap == [outcome |-> "none", val |-> NoVal, what |-> << >>, count |-> 0]
NoOptions == [exists |-> FALSE, m_background_colour |-> 0, m_text_colour |-> 0, origin |-> "none"]
NoOp == [op |-> "none", raised |-> "none", on |-> NoVal, who |-> "none",
         background |-> NoVal, text |-> NoVal, learnt |-> "unknown",
         arg |-> NoVal, name |-> "none"]
NoStorage == [kind |-> "none", T |-> "none", N |-> 0]
NoInst == [T |-> "none", Size |-> DynamicSize2(0, 0), type |-> NoStorage]
NoNames == [T1 |-> "none", T2 |-> "none", s1 |-> "none", s2 |-> "none"]
NoBuild == [types |-> {}, tests |-> FALSE, used |-> {}, outcome |-> "none"]
NoPlot == [op |-> "none", type |-> "none", target |-> DynamicSize2(0, 0),
           m_size |-> DynamicSize2(0, 0), m_data |-> << >>]
NoParams == [exists |-> FALSE, m_series_length |-> 0, m_num_series |-> 0,
             num_series |-> 0, series_length |-> 0]

\* the process has not been aborted by an out-of-bounds access
Running == last.outcome # "abort"

\* ------------------------------------------------------------ construction
InitArray ==
    /\ m_size \in Sizes
    /\ m_data = ConstructStorage(m_size)
    /\ other = NoArray
    /\ last = NoAccess
    /\ nw = 0
    /\ it = NoIter
    /\ visited = << >>
    /\ yielded = << >>
    /\ prev = NoPrev

InitRest ==
    /\ rcopy = NoResult
    /\ opts = NoOptions
    /\ builder = NoOptions
    /\ rop = NoOp

InitAux ==
    /\ names = NoNames
    /\ build = NoBuild
    /\ plot = NoPlot
    /\ params = NoParams

Init ==
    /\ InitArray
    /\ res = NoResult
    /\ unwrap = NoUnwrap
    /\ InitRest
    /\ inst = NoInst
    /\ InitAux

\* last describes the latest operation on the array when that was an indexed
\* access: every other operation clears it
Disturbed(l) == NoAccess

\* a write to m_data ends the loops' "no mutation" stretch
Mutated(i) == [i EXCEPT !.clean = FALSE]

\* an assignment that also overwrites the first element
StoreAt_Clobber(storage, idx, v) ==
    [k \in 1 .. Len(storage) |-> IF k = idx + 1 \/ k = 1 THEN v ELSE storage[k]]

\* m_data[idx] = v: the element at offset idx is assigned through the reference
\* operator[] (or the iterator) returns
StoreAt(storage, idx, v) == [storage EXCEPT ![idx + 1] = v]

\* the value written by the latest operator() write to (row, col), if every
\* access since then was a read through operator()
Wrote(row, col) ==
    IF last.op \in {"read", "write"} /\ last.row = row /\ last.col = col
    THEN last.wrote ELSE NoVal

\* --------------------------------------------------------- indexed access
\* operator()(row, col) const / non-const, used to read
\*   m_data[calculate_linear_idx(m_size, row, col)]
\* std::array / std::vector operator[] past the end is undefined: the process
\* is aborted, or the access lands outside the storage
IndexRead(row, col, isConst) ==
    /\ Running
    /\ LET idx == calculate_linear_idx(m_size, row, col)
       IN  IF idx < Len(m_data)
           THEN last' = [op |-> "read", const |-> isConst, row |-> row, col |-> col,
                         off |-> idx, outcome |-> "ok", val |-> m_data[idx + 1],
                         wrote |-> Wrote(row, col)]
           ELSE \E o \in {"abort", "stray"}, g \in Values :
                    last' = [op |-> "read", const |-> isConst, row |-> row, col |-> col,
                             off |-> idx, outcome |-> o,
                             val |-> IF o = "stray" THEN g ELSE NoVal,
                             wrote |-> NoVal]
    /\ UNCHANGED <<m_size, m_data, other, nw, it, visited, yielded, prev, res, unwrap, optVars, inst>>
    /\ UNCHANGED auxVars

\* an accessor that returns a reference to a copy: the assignment is lost
IndexWrite_Lost(row, col, v) ==
    /\ Running
    /\ nw < MaxWrites
    /\ LET idx == calculate_linear_idx(m_size, row, col)
       IN  last' = [op |-> "write", const |-> FALSE, row |-> row, col |-> col,
                    off |-> idx, outcome |-> IF idx < Len(m_data) THEN "ok" ELSE "stray",
                    val |-> v, wrote |-> IF idx < Len(m_data) THEN v ELSE NoVal]
    /\ nw' = nw + 1
    /\ UNCHANGED <<m_size, m_data, other, it, visited, yielded, prev, res, unwrap, optVars, inst>>
    /\ UNCHANGED auxVars

\* operator()(row, col) = v through the non-const accessor
IndexWrite(row, col, v) ==
    /\ Running
    /\ nw < MaxWrites
    /\ LET idx == calculate_linear_idx(m_size, row, col)
       IN  IF idx < Len(m_data)
           THEN /\ m_data' = StoreAt(m_data, idx, v)
                /\ last' = [op |-> "write", const |-> FALSE, row |-> row, col |-> col,
                            off |-> idx, outcome |-> "ok", val |-> v, wrote |-> v]
                /\ it' = Mutated(it)
                /\ yielded' = << >>
                /\ prev' = NoPrev
           ELSE /\ \E o \in {"abort", "stray"} :
                    last' = [op |-> "write", const |-> FALSE, row |-> row, col |-> col,
                             off |-> idx, outcome |-> o, val |-> v, wrote |-> NoVal]
                /\ UNCHANGED <<m_data, it, yielded, prev>>
    /\ nw' = nw + 1
    /\ UNCHANGED <<m_size, other, visited, res, unwrap, optVars, inst>>
    /\ UNCHANGED auxVars

\* ------------------------------------------------------------- bulk view
\* a view that stops one element short of the storage
data_Truncated ==
    [extent |-> IF Len(m_data) > 0 THEN Len(m_data) - 1 ELSE 0, elems |-> m_data]

\* data(), const and non-const: std::span(m_data.data(), m_data.size())
data == [extent |-> Len(m_data), elems |-> m_data]

\* the value the latest operator() write left at offset k, if nothing came
\* since
WroteAt(k) ==
    IF last.op = "write" /\ last.outcome = "ok" /\ last.off = k THEN last.wrote ELSE NoVal

\* data()[k] read through the read-only view
ViewRead(k) ==
    /\ Running
    /\ k < data.extent
    /\ last' = [op |-> "view", const |-> TRUE, row |-> 0, col |-> 0, off |-> k,
                outcome |-> "ok", val |-> data.elems[k + 1], wrote |-> WroteAt(k)]
    /\ UNCHANGED <<m_size, m_data, other, nw, it, visited, yielded, prev, res, unwrap, optVars, inst>>
    /\ UNCHANGED auxVars

\* data()[k] = v through the read/write view
ViewWrite(k, v) ==
    /\ Running
    /\ nw < MaxWrites
    /\ k < data.extent
    /\ m_data' = StoreAt(m_data, k, v)
    /\ nw' = nw + 1
    /\ last' = Disturbed(last)
    /\ it' = Mutated(it)
    /\ yielded' = << >>
    /\ prev' = NoPrev
    /\ UNCHANGED <<m_size, other, visited, res, unwrap, optVars, inst>>
    /\ UNCHANGED auxVars

\* --------------------------------------------------------------- iteration
\* an iterator that starts at the second element
begin_Second == 0 + 1

\* begin(): m_data.data()
begin == 0

\* end(): m_data.data() + m_data.size()
end == 0 + Len(m_data)

\* for (auto& val : mat): the loop is entered, the iterator set to begin().
\* A loop that ran to its end with no write since it began hands its elements
\* over to prev.
IterBegin(w) ==
    /\ Running
    /\ it' = [state |-> "running", write |-> w, pos |-> begin, clean |-> TRUE]
    /\ visited' = << >>
    /\ yielded' = << >>
    /\ prev' = IF it.state = "done" /\ it.clean
               THEN [valid |-> TRUE, seq |-> yielded]
               ELSE prev
    /\ last' = NoAccess
    /\ UNCHANGED <<m_size, m_data, other, nw, res, unwrap, optVars, inst>>
    /\ UNCHANGED auxVars

\* a loop pass that resets the element it has read
IterRead_Destructive ==
    /\ Running
    /\ it.state = "running"
    /\ ~it.write
    /\ it.pos # end
    /\ visited' = Append(visited, it.pos)
    /\ yielded' = IF it.clean THEN Append(yielded, m_data[it.pos + 1]) ELSE yielded
    /\ m_data' = [m_data EXCEPT ![it.pos + 1] = ValueInit]
    /\ it' = [it EXCEPT !.pos = it.pos + 1]
    /\ last' = NoAccess
    /\ UNCHANGED <<m_size, other, nw, prev, res, unwrap, optVars, inst>>
    /\ UNCHANGED auxVars

\* one pass of a read-only loop body: it != end(), val = *it, ++it
IterRead ==
    /\ Running
    /\ it.state = "running"
    /\ ~it.write
    /\ it.pos # end
    /\ visited' = Append(visited, it.pos)
    /\ yielded' = IF it.clean THEN Append(yielded, m_data[it.pos + 1]) ELSE yielded
    /\ it' = [it EXCEPT !.pos = it.pos + 1]
    /\ last' = NoAccess
    /\ UNCHANGED <<m_size, m_data, other, nw, prev, res, unwrap, optVars, inst>>
    /\ UNCHANGED auxVars

\* one pass of a writing loop body: it != end(), *it = v, ++it
IterWrite(v) ==
    /\ Running
    /\ it.state = "running"
    /\ it.write
    /\ it.pos # end
    /\ nw < MaxWrites
    /\ m_data' = StoreAt(m_data, it.pos, v)
    /\ visited' = Append(visited, it.pos)
    /\ yielded' = << >>
    /\ it' = [it EXCEPT !.pos = it.pos + 1, !.clean = FALSE]
    /\ nw' = nw + 1
    /\ last' = Disturbed(last)
    /\ prev' = NoPrev
    /\ UNCHANGED <<m_size, other, res, unwrap, optVars, inst>>
    /\ UNCHANGED auxVars

\* it == end(): the loop is left
IterEnd ==
    /\ Running
    /\ it.state = "running"
    /\ it.pos = end
    /\ it' = [it EXCEPT !.state = "done"]
    /\ last' = NoAccess
    /\ UNCHANGED <<m_size, m_data, other, nw, visited, yielded, prev, res, unwrap, optVars, inst>>
    /\ UNCHANGED auxVars

\* ------------------------------------------------------------------ copies
\* a copy with its extents exchanged
CopyOf_Transposed(size, storage) ==
    [exists |-> TRUE, m_size |-> [size EXCEPT !.m_rows = size.m_cols, !.m_cols = size.m_rows],
     m_data |-> storage]

\* the implicit copy constructor: both members are copied (const auto img2 = img)
CopyOf(size, storage) == [exists |-> TRUE, m_size |-> size, m_data |-> storage]

CopyConstruct ==
    /\ Running
    /\ other' = CopyOf(m_size, m_data)
    /\ last' = NoAccess
    /\ UNCHANGED <<m_size, m_data, nw, it, visited, yielded, prev, res, unwrap, optVars, inst>>
    /\ UNCHANGED auxVars

\* the implicit copy assignment img = img2: both members are assigned
CopyAssign ==
    /\ Running
    /\ other.exists
    /\ m_size' = other.m_size
    /\ m_data' = other.m_data
    /\ last' = Disturbed(last)
    /\ it' = Mutated(it)
    /\ yielded' = << >>
    /\ prev' = NoPrev
    /\ UNCHANGED <<other, nw, visited, res, unwrap, optVars, inst>>
    /\ UNCHANGED auxVars

\* a write to a copy that shares its buffer with the array it was copied from
OtherWrite_Shared(k, v) ==
    /\ Running
    /\ other.exists
    /\ nw < MaxWrites
    /\ k < Len(other.m_data)
    /\ other' = [other EXCEPT !.m_data = StoreAt(other.m_data, k, v)]
    /\ m_data' = StoreAt(m_data, k, v)
    /\ nw' = nw + 1
    /\ last' = Disturbed(last)
    /\ UNCHANGED <<m_size, it, visited, yielded, prev, res, unwrap, optVars, inst>>
    /\ UNCHANGED auxVars

\* img2.data()[k] = v: a write to the copy
OtherWrite(k, v) ==
    /\ Running
    /\ other.exists
    /\ nw < MaxWrites
    /\ k < Len(other.m_data)
    /\ other' = [other EXCEPT !.m_data = StoreAt(other.m_data, k, v)]
    /\ nw' = nw + 1
    /\ last' = Disturbed(last)
    /\ UNCHANGED <<m_size, m_data, it, visited, yielded, prev, res, unwrap, optVars, inst>>
    /\ UNCHANGED auxVars

\* ---------------------------------------------------- presentation accessors
\* ArrayNd::to_string() const: the name of the dimension count
to_string(size) == IF Size_dims(size) = 1 THEN "1-D array" ELSE "2-D array"

\* ArrayNd::to_string() and ArrayNd::type_s(): const, noexcept, they read
\* Size::dims and T only
Present(accessor) ==
    /\ Running
    /\ last' = [NoAccess EXCEPT !.op = accessor,
                                !.outcome = IF accessor = "to_string" THEN to_string(m_size)
                                            ELSE "ok"]
    /\ UNCHANGED <<m_size, m_data, other, nw, it, visited, yielded, prev, res, unwrap, optVars, inst>>
    /\ UNCHANGED auxVars

\* ------------------------------------------------------------- StorageType
\* the member declaration StorageType<T, Size> m_data of ArrayNd<T, Size>
Instantiate ==
    /\ inst.type = NoStorage
    /\ inst' = [inst EXCEPT !.type = StorageType(inst.T, inst.Size)]
    /\ UNCHANGED <<m_size, m_data, other, last, nw, it, visited, yielded, prev, res, unwrap, optVars>>
    /\ UNCHANGED auxVars

\* ----------------------------------------------------------- to_string<T>
\* types that are not alternatives of v_AllowedTypes
OtherTypes == {"bool", "char", "long", "int8_t"}

Types == AllowedTypes \cup OtherTypes

\* a chain that gives double the name of float
NameChain_Merged(T) ==
    IF T = "int" THEN "int"
    ELSE IF T = "uint8_t" THEN "uint8_t"
    ELSE IF T = "uint32_t" THEN "uint32_t"
    ELSE IF T = "float" THEN "float"
    ELSE IF T = "double" THEN "float"
    ELSE IF T = "RGBA" THEN "RGBA"
    ELSE "ill-formed"

\* the if constexpr chain of to_string<T>(): the name of T, or the
\* static_assert(always_false<T>::value) of the last branch
NameChain(T) ==
    IF T = "int" THEN "int"
    ELSE IF T = "uint8_t" THEN "uint8_t"
    ELSE IF T = "uint32_t" THEN "uint32_t"
    ELSE IF T = "float" THEN "float"
    ELSE IF T = "double" THEN "double"
    ELSE IF T = "RGBA" THEN "RGBA"
    ELSE "ill-formed"

\* template <AllowedType T> to_string(), with `allowed` the alternatives of
\* v_AllowedTypes: a T outside them does not satisfy the concept and the
\* call is ill-formed
to_string_T(allowed, T) == IF T \in allowed THEN NameChain(T) ELSE "ill-formed"

\* to_string<T>() is instantiated for the first or the second type
Lookup(i) ==
    /\ names.T1 # "none"
    /\ \/ /\ i = 1 /\ names.s1 = "none"
          /\ names' = [names EXCEPT !.s1 = to_string_T(AllowedTypes, names.T1)]
       \/ /\ i = 2 /\ names.s2 = "none"
          /\ names' = [names EXCEPT !.s2 = to_string_T(AllowedTypes, names.T2)]
    /\ UNCHANGED <<m_size, m_data, other, last, nw, it, visited, yielded, prev, res, unwrap, optVars, inst>>
    /\ UNCHANGED <<build, plot, params>>

\* ------------------------------------------------------------------ builds
\* test_to_string(), compiled under #ifdef PJPLOT_ENABLE_TESTS: to_string is
\* instantiated for every alternative of v_AllowedTypes
test_to_string(allowed) ==
    IF \E T \in allowed : to_string_T(allowed, T) = "ill-formed" THEN "fault" ELSE "ok"

\* the header is compiled with `types` as the alternatives of
\* v_AllowedTypes, with or without PJPLOT_ENABLE_TESTS (CMake defines it
\* only when PJPLOTS_ENABLE_TESTS is ON), in a program that names
\* to_string<T>() for the types in `used`
Build ==
    /\ build.types # {}
    /\ build.outcome = "none"
    /\ build' = [build EXCEPT !.outcome =
                    IF build.tests /\ test_to_string(build.types) = "fault" THEN "fault"
                    ELSE IF \E T \in build.used : to_string_T(build.types, T) = "ill-formed"
                         THEN "fault"
                         ELSE "ok"]
    /\ UNCHANGED <<m_size, m_data, other, last, nw, it, visited, yielded, prev, res, unwrap, optVars, inst>>
    /\ UNCHANGED <<names, plot, params>>

\* --------------------------------------------------------- ResultWithValue
Chars == 0 .. MaxChar
NUL == 0

RECURSIVE Strings(_)
Strings(n) == IF n = 0 THEN { << >> }
              ELSE Strings(n - 1) \cup { Append(s, c) : s \in { t \in Strings(n - 1) : Len(t) = n - 1 }, c \in Chars }

\* std::string values a caller can pass as a message
Messages == Strings(MaxMsgLen)

\* std::string::c_str() read as a C string: the characters before the first NUL
c_str(s) ==
    LET nuls == { i \in 1 .. Len(s) : s[i] = NUL }
    IN  IF nuls = {} THEN s
        ELSE SubSeq(s, 1, (CHOOSE i \in nuls : \A j \in nuls : i <= j) - 1)

\* FailureType(std::string&& message): m_message(std::move(message))
FailureType(message) == [m_message |-> message]

\* FailureType::get_message()
get_message(failure) == failure.m_message

\* UnhandledFailureException(const std::string& message): m_message(message)
UnhandledFailureException(message) == [m_message |-> message]

\* UnhandledFailureException::what(): m_message.c_str()
what(e) == c_str(e.m_message)

\* std::variant<T, FailureType> m_value: index 0 holds a T, index 1 a FailureType
\* (arg and msg remember what the constructor was given)
\* ResultWithValue(T&& value): m_value(std::move(value))
ResultWithValue(value) ==
    [index |-> 0, value |-> value, m_message |-> << >>, arg |-> value, msg |-> << >>]

\* ResultWithValue::Failure(std::string&& msg):
\*   ResultWithValue<T>(FailureType(std::move(msg)))
Failure(msg) ==
    [index |-> 1, value |-> NoVal, m_message |-> FailureType(msg).m_message,
     arg |-> NoVal, msg |-> msg]

\* a test that takes the value alternative for the failure
holds_FailureType_Inverted(r) == r.index = 0

\* std::holds_alternative<FailureType>(m_value)
holds_FailureType(r) == r.index = 1

\* ResultWithValue::get_value(), const and non-const: what the call produces
get_value(r) ==
    IF holds_FailureType(r)
    THEN LET failure == [m_message |-> r.m_message]
             e == UnhandledFailureException(get_message(failure))
         IN  [outcome |-> "UnhandledFailureException", val |-> NoVal, what |-> what(e)]
    ELSE [outcome |-> "value", val |-> r.value, what |-> << >>]

\* a fallible operation succeeds with value v
MakeSuccess(v) ==
    /\ res' = ResultWithValue(v)
    /\ unwrap' = NoUnwrap
    /\ rop' = [NoOp EXCEPT !.op = "construct", !.on = res'.index]
    /\ UNCHANGED <<m_size, m_data, other, last, nw, it, visited, yielded, prev>>
    /\ UNCHANGED <<rcopy, opts, builder, inst>>
    /\ UNCHANGED auxVars

\* a fallible operation fails with message m
MakeFailure(m) ==
    /\ res' = Failure(m)
    /\ unwrap' = NoUnwrap
    /\ rop' = [NoOp EXCEPT !.op = "construct", !.on = res'.index]
    /\ UNCHANGED <<m_size, m_data, other, last, nw, it, visited, yielded, prev>>
    /\ UNCHANGED <<rcopy, opts, builder, inst>>
    /\ UNCHANGED auxVars

\* what is known of the call that made the result is kept while it is unwrapped
Made(o) == IF o.op \in {"create", "get_value"} THEN o ELSE NoOp

\* an unwrap that turns a failure it escalates into a success
Unwrap_Healing ==
    /\ res.index # NoVal
    /\ unwrap.count < MaxUnwraps
    /\ unwrap' = [outcome |-> get_value(res).outcome, val |-> get_value(res).val,
                  what |-> get_value(res).what, count |-> unwrap.count + 1]
    /\ rop' = [Made(rop) EXCEPT !.op = "get_value", !.on = res.index,
                            !.raised = IF get_value(res).outcome = "value" THEN "none"
                                       ELSE get_value(res).outcome,
                            !.learnt = IF get_value(res).outcome = "value" THEN "success"
                                       ELSE "failure"]
    /\ res' = [res EXCEPT !.index = 0]
    /\ UNCHANGED <<m_size, m_data, other, last, nw, it, visited, yielded, prev>>
    /\ UNCHANGED <<rcopy, opts, builder, inst>>
    /\ UNCHANGED auxVars

\* the caller unwraps the result (and catches what it throws)
Unwrap ==
    /\ res.index # NoVal
    /\ unwrap.count < MaxUnwraps
    /\ unwrap' = [outcome |-> get_value(res).outcome, val |-> get_value(res).val,
                  what |-> get_value(res).what, count |-> unwrap.count + 1]
    /\ rop' = [Made(rop) EXCEPT !.op = "get_value", !.on = res.index,
                            !.raised = IF get_value(res).outcome = "value" THEN "none"
                                       ELSE get_value(res).outcome,
                            !.learnt = IF get_value(res).outcome = "value" THEN "success"
                                       ELSE "failure"]
    /\ UNCHANGED <<res, m_size, m_data, other, last, nw, it, visited, yielded, prev>>
    /\ UNCHANGED <<rcopy, opts, builder, inst>>
    /\ UNCHANGED auxVars

\* -------------------------------------------------------- AppearanceOptions
\* enum class Colour { WHITE, BLACK, COUNT }: the enumerators' values
WHITE == 0
BLACK == 1
COUNT == 2

\* the declared colours
Colour == {WHITE, BLACK}

\* static_cast<Colour>(n): every value of the underlying type int is a value
\* of Colour
RawColours == (0 - 1) .. MaxRaw

\* the literal "Error: invalid colour type", a message without NUL
k_invalid_colour == <<1, 2, 1>>

\* a constructor that stores its arguments in the other order
AppearanceOptions_Swapped(background, text) ==
    [m_background_colour |-> text, m_text_colour |-> background]

\* AppearanceOptions(Colour background, Colour text):
\*   m_background_colour(background), m_text_colour(text)
AppearanceOptions(background, text) ==
    [m_background_colour |-> background, m_text_colour |-> text]

\* AppearanceOptions(){}: the default member initialisers
AppearanceOptions_default ==
    [m_background_colour |-> WHITE, m_text_colour |-> BLACK]

\* AppearanceOptions::create(background, text)
create(background, text) ==
    IF background < COUNT /\ text < COUNT
    THEN ResultWithValue(AppearanceOptions(background, text))
    ELSE Failure(k_invalid_colour)

\* a setter that keeps the old colour when given an undeclared one
set_background_colour_Validating(o, background) ==
    IF background \in Colour THEN [o EXCEPT !.m_background_colour = background] ELSE o

\* AppearanceOptions::set_background_colour: m_background_colour = background
set_background_colour(o, background) == [o EXCEPT !.m_background_colour = background]

\* a setter that paints both fields with the text colour
set_text_colour_Both(o, text) ==
    [o EXCEPT !.m_text_colour = text, !.m_background_colour = text]

\* AppearanceOptions::set_text_colour: m_text_colour = text
set_text_colour(o, text) == [o EXCEPT !.m_text_colour = text]

\* AppearanceOptions::get_background_colour()
get_background_colour(o) == o.m_background_colour

\* AppearanceOptions::get_text_colour()
get_text_colour(o) == o.m_text_colour

\* an AppearanceOptions object somebody holds, with the way it was made
Held(o, origin) ==
    [exists |-> TRUE, m_background_colour |-> o.m_background_colour,
     m_text_colour |-> o.m_text_colour, origin |-> origin]

\* a create that throws when a colour is rejected
Create_Escalating(background, text) ==
    /\ res' = create(background, text)
    /\ unwrap' = NoUnwrap
    /\ rcopy' = NoResult
    /\ rop' = [NoOp EXCEPT !.op = "create", !.on = res'.index,
                           !.raised = IF res'.index = 1 THEN "UnhandledFailureException"
                                      ELSE "none",
                           !.background = background, !.text = text]
    /\ UNCHANGED <<m_size, m_data, other, last, nw, it, visited, yielded, prev>>
    /\ UNCHANGED <<opts, builder, inst>>
    /\ UNCHANGED auxVars

\* auto r = AppearanceOptions::create(background, text);
Create(background, text) ==
    /\ res' = create(background, text)
    /\ unwrap' = NoUnwrap
    /\ rcopy' = NoResult
    /\ rop' = [NoOp EXCEPT !.op = "create", !.on = res'.index,
                           !.background = background, !.text = text]
    /\ UNCHANGED <<m_size, m_data, other, last, nw, it, visited, yielded, prev>>
    /\ UNCHANGED <<opts, builder, inst>>
    /\ UNCHANGED auxVars

\* auto r2 = r; the implicitly defined copy constructor of ResultWithValue
CopyResult ==
    /\ res.index # NoVal
    /\ rcopy' = res
    /\ rop' = [NoOp EXCEPT !.op = "copy", !.on = res.index]
    /\ UNCHANGED <<m_size, m_data, other, last, nw, it, visited, yielded, prev>>
    /\ UNCHANGED <<res, unwrap, opts, builder, inst>>
    /\ UNCHANGED auxVars

\* r goes out of scope; the implicitly defined destructor of ResultWithValue
Discard ==
    /\ res.index # NoVal
    /\ res' = NoResult
    /\ unwrap' = NoUnwrap
    /\ rop' = [NoOp EXCEPT !.op = "discard", !.on = res.index]
    /\ UNCHANGED <<m_size, m_data, other, last, nw, it, visited, yielded, prev>>
    /\ UNCHANGED <<rcopy, opts, builder, inst>>
    /\ UNCHANGED auxVars

\* AppearanceOptions o = r.get_value(); the copy of the value get_value() returned
TakeValue ==
    /\ rop.op = "get_value"
    /\ unwrap.outcome = "value"
    /\ opts' = Held(unwrap.val, "create")
    /\ rop' = [Made(rop) EXCEPT !.op = "take", !.on = res.index]
    /\ UNCHANGED <<m_size, m_data, other, last, nw, it, visited, yielded, prev>>
    /\ UNCHANGED <<res, unwrap, rcopy, builder, inst>>
    /\ UNCHANGED auxVars

\* AppearanceOptions o; the public default constructor
DefaultConstruct ==
    /\ opts' = Held(AppearanceOptions_default, "default")
    /\ rop' = [NoOp EXCEPT !.op = "AppearanceOptions"]
    /\ UNCHANGED <<m_size, m_data, other, last, nw, it, visited, yielded, prev>>
    /\ UNCHANGED <<res, unwrap, rcopy, builder, inst>>
    /\ UNCHANGED auxVars

\* Factory builder; Factory() default-initialises m_appearance_options
FactoryConstruct ==
    /\ builder' = Held(AppearanceOptions_default, "default")
    /\ rop' = [NoOp EXCEPT !.op = "Factory"]
    /\ UNCHANGED <<m_size, m_data, other, last, nw, it, visited, yielded, prev>>
    /\ UNCHANGED <<res, unwrap, rcopy, opts, inst>>
    /\ UNCHANGED auxVars

\* Factory::get_appearance_options(): a reference to m_appearance_options
get_appearance_options(f) == f

\* o.set_background_colour(v), on the caller's object or on
\* builder.get_appearance_options()
SetBackground(who, v) ==
    /\ \/ /\ who = "opts" /\ opts.exists
          /\ opts' = set_background_colour(opts, v)
          /\ UNCHANGED builder
       \/ /\ who = "builder" /\ builder.exists
          /\ builder' = set_background_colour(get_appearance_options(builder), v)
          /\ UNCHANGED opts
    /\ rop' = [NoOp EXCEPT !.op = "set_background_colour", !.who = who, !.background = v]
    /\ UNCHANGED <<m_size, m_data, other, last, nw, it, visited, yielded, prev>>
    /\ UNCHANGED <<res, unwrap, rcopy, inst>>
    /\ UNCHANGED auxVars

\* o.set_text_colour(v), on the caller's object or on
\* builder.get_appearance_options()
SetText(who, v) ==
    /\ \/ /\ who = "opts" /\ opts.exists
          /\ opts' = set_text_colour(opts, v)
          /\ UNCHANGED builder
       \/ /\ who = "builder" /\ builder.exists
          /\ builder' = set_text_colour(get_appearance_options(builder), v)
          /\ UNCHANGED opts
    /\ rop' = [NoOp EXCEPT !.op = "set_text_colour", !.who = who, !.text = v]
    /\ UNCHANGED <<m_size, m_data, other, last, nw, it, visited, yielded, prev>>
    /\ UNCHANGED <<res, unwrap, rcopy, inst>>
    /\ UNCHANGED auxVars

\* ------------------------------------------------------------ Chart, Factory
\* enum class ChartType { LINE, BAR, SCATTER, COUNT }: LineChart, BarChart
\* and ScatterChart
ChartTypes == {"LINE", "BAR", "SCATTER"}

\* an image whose storage is reserved and not filled
Img2_Empty(size) == [m_size |-> size, m_data |-> << >>]

\* Img2<Size>(size): Mat2(Size size) : ArrayNd<RGBA, Size>(size)
Img2(size) == [m_size |-> size, m_data |-> ConstructStorage(size)]

\* Chart<Type>::get_plot(plot_data, params, const AppearanceOptions&,
\* out_size): return Img2<OutSize>(out_size)
Chart_get_plot(Type, o, out_size) == Img2(out_size)

\* Params(size_t series_length, size_t num_series):
\*   m_series_length(series_length), m_num_series(num_series)
Params(series_length, num_series) ==
    [m_series_length |-> series_length, m_num_series |-> num_series]

\* LineChart::Params(k_num_series, k_series_length), as the example and the
\* demo program write it
MakeParams(k_num_series, k_series_length) ==
    /\ params' = [exists |-> TRUE,
                  m_series_length |-> Params(k_num_series, k_series_length).m_series_length,
                  m_num_series |-> Params(k_num_series, k_series_length).m_num_series,
                  num_series |-> k_num_series, series_length |-> k_series_length]
    /\ rop' = [NoOp EXCEPT !.op = "Params"]
    /\ UNCHANGED <<m_size, m_data, other, last, nw, it, visited, yielded, prev, res, unwrap, inst>>
    /\ UNCHANGED <<rcopy, opts, builder, names, build, plot>>

\* builder.get_plot<PlotType, ElementType>(plot_data, params, output_size):
\* Factory::get_plot const returns PlotType::get_plot(plot_data, params,
\* m_appearance_options, output_size)
GetPlot(Type, output_size) ==
    /\ builder.exists
    /\ LET img == Chart_get_plot(Type, get_appearance_options(builder), output_size)
       IN  plot' = [op |-> "get_plot", type |-> Type, target |-> output_size,
                    m_size |-> img.m_size, m_data |-> img.m_data]
    /\ rop' = [NoOp EXCEPT !.op = "get_plot"]
    /\ UNCHANGED <<m_size, m_data, other, last, nw, it, visited, yielded, prev, res, unwrap, inst>>
    /\ UNCHANGED <<rcopy, opts, builder, names, build, params>>

\* builder.get_plot<PlotType, ElementType>(plot_data, params, img,
\* output_size) with the caller's array as img: Factory::get_plot const, the
\* overload taking Img2<OutSize>&, returns at once.  OutSize is one type for
\* img and output_size: a static array fixes the target, a dynamic one
\* leaves its extents free
GetPlotInPlace(Type, output_size) ==
    /\ Running
    /\ builder.exists
    /\ output_size.static = m_size.static
    /\ m_size.static => output_size = m_size
    /\ plot' = [op |-> "in_place", type |-> Type, target |-> output_size,
                m_size |-> m_size, m_data |-> m_data]
    /\ rop' = [NoOp EXCEPT !.op = "get_plot"]
    /\ last' = Disturbed(last)
    /\ UNCHANGED <<m_size, m_data, other, nw, it, visited, yielded, prev, res, unwrap, inst>>
    /\ UNCHANGED <<rcopy, opts, builder, names, build, params>>

\* a lookup whose default case returns a name
to_string_Colour_Lenient(val) ==
    IF val = WHITE THEN [raised |-> "none", name |-> "white"]
    ELSE IF val = BLACK THEN [raised |-> "none", name |-> "black"]
    ELSE [raised |-> "none", name |-> "unknown"]

\* to_string(Colour val): the switch, whose default case throws
\* std::invalid_argument
to_string_Colour(val) ==
    IF val = WHITE THEN [raised |-> "none", name |-> "white"]
    ELSE IF val = BLACK THEN [raised |-> "none", name |-> "black"]
    ELSE [raised |-> "invalid_argument", name |-> "none"]

\* PjPlot::to_string(static_cast<Colour>(v)), in a try block
ColourName(v) ==
    /\ rop' = [NoOp EXCEPT !.op = "to_string", !.arg = v,
                           !.raised = to_string_Colour(v).raised,
                           !.name = to_string_Colour(v).name]
    /\ UNCHANGED <<m_size, m_data, other, last, nw, it, visited, yielded, prev, res, unwrap, inst>>
    /\ UNCHANGED <<rcopy, opts, builder, names, build, plot, params>>

\* ----------------------------------------------------------- specifications
\* indexed access to one array, with writes through the bulk view
Next ==
    \/ \E row \in Indices, col \in Indices, c \in BOOLEAN : IndexRead(row, col, c)
    \/ \E row \in Indices, col \in Indices, v \in Values : IndexWrite(row, col, v)
    \/ \E k \in 0 .. (MaxExt * MaxExt), v \in Values : ViewWrite(k, v)

Spec == Init /\ [][Next]_vars

\* range-for loops over one array, with writes through the bulk view
NextIter ==
    \/ \E w \in BOOLEAN : IterBegin(w)
    \/ IterRead
    \/ \E v \in Values : IterWrite(v)
    \/ IterEnd
    \/ \E k \in 0 .. (MaxExt * MaxExt), v \in Values : ViewWrite(k, v)

SpecIter == Init /\ [][NextIter]_vars

\* every operation that writes to an array, and copies
NextWrites ==
    \/ \E row \in Indices, col \in Indices, v \in Values : IndexWrite(row, col, v)
    \/ \E k \in 0 .. (MaxExt * MaxExt), v \in Values : ViewWrite(k, v)
    \/ IterBegin(TRUE)
    \/ \E v \in Values : IterWrite(v)
    \/ IterEnd
    \/ CopyConstruct
    \/ CopyAssign

SpecWrites == Init /\ [][NextWrites]_vars

\* results of fallible operations
InitResult ==
    /\ m_size = DynamicSize2(0, 0)
    /\ m_data = ConstructStorage(m_size)
    /\ other = NoArray
    /\ last = NoAccess
    /\ nw = 0
    /\ it = NoIter
    /\ visited = << >>
    /\ yielded = << >>
    /\ prev = NoPrev
    /\ res = NoResult
    /\ unwrap = NoUnwrap
    /\ InitRest
    /\ inst = NoInst
    /\ InitAux

NextResult ==
    \/ \E v \in Values : MakeSuccess(v)
    \/ \E m \in Messages : MakeFailure(m)
    \/ Unwrap

SpecResult == InitResult /\ [][NextResult]_vars

\* results of AppearanceOptions::create and what a caller does with them
NextOptions ==
    \/ \E b \in RawColours, t \in RawColours : Create(b, t)
    \/ CopyResult
    \/ Discard
    \/ Unwrap
    \/ TakeValue
    \/ DefaultConstruct
    \/ FactoryConstruct

SpecOptions == InitResult /\ [][NextOptions]_vars

\* AppearanceOptions objects, made by create from declared colours or by
\* default construction, and their setters
NextSetters ==
    \/ \E b \in Colour, t \in Colour : Create(b, t)
    \/ Unwrap
    \/ TakeValue
    \/ DefaultConstruct
    \/ FactoryConstruct
    \/ \E who \in {"opts", "builder"}, v \in RawColours : SetBackground(who, v)
    \/ \E who \in {"opts", "builder"}, v \in RawColours : SetText(who, v)

SpecSetters == InitResult /\ [][NextSetters]_vars

\* one dynamically shaped array under reads by index, writes through the
\* view (to its first element), read-only loops, copies and the
\* presentation accessors
InitDynamic ==
    /\ Init
    /\ ~m_size.static

NextDynamic ==
    \/ \E row \in Indices, col \in Indices : IndexRead(row, col, TRUE)
    \/ \E v \in Values : ViewWrite(0, v)
    \/ IterBegin(FALSE)
    \/ IterRead
    \/ IterEnd
    \/ CopyConstruct
    \/ CopyAssign
    \/ \E a \in {"to_string", "type_s"} : Present(a)

SpecDynamic == InitDynamic /\ [][NextDynamic]_vars

\* StorageType<T, Size> named for an element type and a shape
InitStorage ==
    /\ m_size = DynamicSize2(0, 0)
    /\ m_data = ConstructStorage(m_size)
    /\ other = NoArray
    /\ last = NoAccess
    /\ nw = 0
    /\ it = NoIter
    /\ visited = << >>
    /\ yielded = << >>
    /\ prev = NoPrev
    /\ res = NoResult
    /\ unwrap = NoUnwrap
    /\ InitRest
    /\ \E T \in AllowedTypes, size \in Shapes :
           inst = [T |-> T, Size |-> size, type |-> NoStorage]
    /\ InitAux

NextStorage == Instantiate

SpecStorage == InitStorage /\ [][NextStorage]_vars

\* one array read and written by index and through the bulk view
NextView ==
    \/ \E row \in Indices, col \in Indices : IndexRead(row, col, FALSE)
    \/ \E row \in Indices, col \in Indices, v \in Values : IndexWrite(row, col, v)
    \/ \E k \in 0 .. (MaxExt * MaxExt), v \in Values : ViewWrite(k, v)
    \/ \E k \in 0 .. (MaxExt * MaxExt) : ViewRead(k)

SpecView == Init /\ [][NextView]_vars

\* an array and its copy, each written after the copy was made
NextCopies ==
    \/ \E row \in Indices, col \in Indices, v \in Values : IndexWrite(row, col, v)
    \/ \E k \in 0 .. (MaxExt * MaxExt), v \in Values : ViewWrite(k, v)
    \/ IterBegin(TRUE)
    \/ \E v \in Values : IterWrite(v)
    \/ IterEnd
    \/ CopyConstruct
    \/ CopyAssign
    \/ \E k \in 0 .. (MaxExt * MaxExt), v \in Values : OtherWrite(k, v)

SpecCopies == Init /\ [][NextCopies]_vars

\* to_string<T>() named for two types
InitNames ==
    /\ m_size = DynamicSize2(0, 0)
    /\ m_data = ConstructStorage(m_size)
    /\ other = NoArray
    /\ last = NoAccess
    /\ nw = 0
    /\ it = NoIter
    /\ visited = << >>
    /\ yielded = << >>
    /\ prev = NoPrev
    /\ res = NoResult
    /\ unwrap = NoUnwrap
    /\ InitRest
    /\ inst = NoInst
    /\ \E T1 \in Types, T2 \in Types :
           names = [T1 |-> T1, T2 |-> T2, s1 |-> "none", s2 |-> "none"]
    /\ build = NoBuild
    /\ plot = NoPlot
    /\ params = NoParams

NextNames == \E i \in {1, 2} : Lookup(i)

SpecNames == InitNames /\ [][NextNames]_vars

\* builds of the header, with types added to v_AllowedTypes
InitBuild ==
    /\ m_size = DynamicSize2(0, 0)
    /\ m_data = ConstructStorage(m_size)
    /\ other = NoArray
    /\ last = NoAccess
    /\ nw = 0
    /\ it = NoIter
    /\ visited = << >>
    /\ yielded = << >>
    /\ prev = NoPrev
    /\ res = NoResult
    /\ unwrap = NoUnwrap
    /\ InitRest
    /\ inst = NoInst
    /\ names = NoNames
    /\ \E added \in SUBSET OtherTypes, tests \in BOOLEAN, used \in SUBSET {"RGBA", "double", "uint8_t"} :
           build = [types |-> AllowedTypes \cup added, tests |-> tests, used |-> used,
                    outcome |-> "none"]
    /\ plot = NoPlot
    /\ params = NoParams

NextBuild == Build

SpecBuild == InitBuild /\ [][NextBuild]_vars

\* images asked of a Factory with a Params value
NextPlot ==
    \/ FactoryConstruct
    \/ \E k \in 1 .. MaxExt, l \in 1 .. MaxExt : MakeParams(k, l)
    \/ \E Type \in ChartTypes, size \in Sizes : GetPlot(Type, size)

SpecPlot == InitResult /\ [][NextPlot]_vars

\* a caller's array, written through its view and handed to a Factory to
\* be filled in place
NextInPlace ==
    \/ FactoryConstruct
    \/ \E v \in Values : ViewWrite(0, v)
    \/ \E Type \in ChartTypes, size \in Sizes : GetPlotInPlace(Type, size)

SpecInPlace == Init /\ [][NextInPlace]_vars

\* a Factory, its appearance options and the names of their colours
NextFactory ==
    \/ FactoryConstruct
    \/ \E v \in RawColours : SetBackground("builder", v)
    \/ \E v \in RawColours : SetText("builder", v)
    \/ \E Type \in ChartTypes, size \in Sizes : GetPlot(Type, size)
    \/ \E v \in RawColours : ColourName(v)

SpecFactory == InitResult /\ [][NextFactory]_vars

\* one dynamically shaped array whose extents range over the whole size
\* type, read by index
InitWide ==
    /\ m_size \in { DynamicSize2(r, c) : r \in 0 .. SizeMod - 1, c \in 0 .. SizeMod - 1 }
    /\ m_data = ConstructStorage(m_size)
    /\ other = NoArray
    /\ last = NoAccess
    /\ nw = 0
    /\ it = NoIter
    /\ visited = << >>
    /\ yielded = << >>
    /\ prev = NoPrev
    /\ res = NoResult
    /\ unwrap = NoUnwrap
    /\ InitRest
    /\ inst = NoInst
    /\ InitAux

NextWide ==
    \E row \in Indices, col \in Indices : IndexRead(row, col, TRUE)

SpecWide == InitWide /\ [][NextWide]_vars

TypeOK ==
    /\ \/ m_size \in Sizes
       \/ ~m_size.static /\ rows(m_size) < SizeMod /\ cols(m_size) < SizeMod
    /\ m_data \in Seq(Values)
    /\ nw \in 0 .. MaxWrites
    /\ it.pos \in 0 .. Len(m_data)

\* ------------------------------------------------------------------ claims
\* the index pair of an indexed access lies within the extents
InRange(l) == l.row < rows(m_size) /\ l.col < cols(m_size)

Accessed == last.op \in {"read", "write"}

\* C1: operator()(row, col) raises an out-of-range fault whenever
\* row >= rows() or col >= cols(), on static and dynamic shapes alike, and
\* then no element is read or written.  (Stated at its most lenient: an
\* access with an index past its extent is never a successful access to an
\* element of the storage.)
C1_OutOfRangeFaults ==
    (Accessed /\ ~InRange(last)) => last.outcome # "ok"

C3_StorageLengthIsNele ==
    /\ Len(m_data) = nele(m_size)
    /\ other.exists => Len(other.m_data) = nele(other.m_size)

C3_Witness ==
    /\ nw = MaxWrites
    /\ other.exists
    /\ it.state = "done" /\ it.write
    /\ Len(m_data) >= 1
    /\ other.m_data # m_data

C6_DefaultInitialised ==
    (nw = 0) =>
        /\ Len(m_data) = nele(m_size)
        /\ \A k \in 1 .. Len(m_data) : m_data[k] = ValueInit

C6_Witness ==
    /\ nw = 0 /\ last.op = "none" /\ ~other.exists
    /\ ~m_size.static
    /\ Len(m_data) = MaxExt * MaxExt

\* the offsets 0, 1, ..., n-1 in order
Offsets(n) == [k \in 1 .. n |-> k - 1]

\* C7: a loop from begin() to end() ends after exactly nele() passes and
\* visits the offsets 0, 1, ..., nele()-1 in that order, each once (no pass
\* when an extent is 0); while it runs it has visited the offsets before
\* its position and has not passed the end.
C7_FullIteration ==
    /\ it.state = "running" =>
          (it.pos <= nele(m_size) /\ visited = Offsets(it.pos))
    /\ it.state = "done" =>
          (Len(visited) = nele(m_size) /\ visited = Offsets(nele(m_size)))

C7_Witness ==
    /\ it.state = "done"
    /\ nele(m_size) = MaxExt * MaxExt
    /\ Len(visited) = MaxExt * MaxExt

\* C8: a pass of a read-only loop leaves storage and extents unchanged, and
\* two loops with no mutation between them yield the same sequence of
\* elements.
C8_RestartableIteration ==
    /\ [](( it.state = "done" /\ it.clean /\ prev.valid) => yielded = prev.seq)
    /\ [][ (it.state = "running" /\ ~it.write /\ it'.state = "running"
               /\ it'.pos = it.pos + 1)
           => (m_data' = m_data /\ m_size' = m_size) ]_vars

C8_Witness ==
    /\ it.state = "done" /\ it.clean /\ ~it.write /\ prev.valid
    /\ Len(yielded) >= 2
    /\ \E k \in 1 .. Len(yielded) : yielded[k] # ValueInit

\* C9: unwrapping a result built by Failure(m) raises an
\* UnhandledFailureException whose what() text is identical to m, for every
\* message m, and returns no value.
C9_WhatIsMessage ==
    (res.index = 1 /\ unwrap.count > 0) =>
        /\ unwrap.outcome = "UnhandledFailureException"
        /\ unwrap.val = NoVal
        /\ unwrap.what = res.msg

\* C10: unwrapping a result constructed in the success state from v raises
\* no fault and returns v, however many times it is unwrapped.
C10_SuccessUnwraps ==
    (res.index = 0 /\ unwrap.count > 0) =>
        (unwrap.outcome = "value" /\ unwrap.val = res.arg)

C10_Witness ==
    /\ res.index = 0 /\ res.arg # ValueInit
    /\ unwrap.count = MaxUnwraps
    /\ unwrap.outcome = "value"

\* a result object is in exactly one state: it holds the value it was made
\* from and no failure descriptor, or a failure descriptor and no value
OneState(r) ==
    r.index # NoVal =>
        /\ r.index \in {0, 1}
        /\ r.index = 0 => (r.value = r.arg /\ r.m_message = << >> /\ r.msg = << >>)
        /\ r.index = 1 => (r.value = NoVal /\ r.m_message = r.msg)

C12_OnlyUnwrapEscalates ==
    /\ rop.raised # "none" => (rop.op = "get_value" /\ rop.on = 1)
    /\ (rop.op = "get_value" /\ rop.on = 1) => rop.raised = "UnhandledFailureException"
    /\ rop.op = "create" => (rop.raised = "none" /\ res.index \in {0, 1})

C12_Witness ==
    /\ rop.op = "discard" /\ rop.on = 1 /\ rop.raised = "none"
    /\ rcopy.index = 1
    /\ res.index = NoVal

\* C13: the result type offers a state inspection apart from unwrap that
\* faults in neither state: whenever a caller has learnt that a result is in
\* the failure state, nothing was raised in learning it.
C13_CheckedAccess ==
    rop.learnt = "failure" => rop.raised = "none"

\* C14: AppearanceOptions::create(b, t) with b and t both in {WHITE, BLACK}
\* returns a success-state result, and the value it unwraps to reports
\* get_background_colour() = b and get_text_colour() = t.
C14_CreateValid ==
    /\ (rop.op = "create" /\ rop.background \in Colour /\ rop.text \in Colour) =>
          /\ res.index = 0
          /\ get_background_colour(res.value) = rop.background
          /\ get_text_colour(res.value) = rop.text
    /\ (rop.op = "get_value" /\ rop.background \in Colour /\ rop.text \in Colour) =>
          /\ unwrap.outcome = "value"
          /\ get_background_colour(unwrap.val) = rop.background
          /\ get_text_colour(unwrap.val) = rop.text

C14_Witness ==
    /\ rop.op = "get_value" /\ rop.background = BLACK /\ rop.text = WHITE
    /\ unwrap.outcome = "value"
    /\ get_background_colour(unwrap.val) = BLACK
    /\ get_text_colour(unwrap.val) = WHITE

\* C15: AppearanceOptions::create(b, t) returns a failure-state result
\* whenever b or t is a value outside {WHITE, BLACK}: COUNT, a larger value,
\* or a raw integer cast to Colour, a negative one included.
C15_CreateRejectsUndeclared ==
    (rop.op = "create" /\ ~(rop.background \in Colour /\ rop.text \in Colour)) =>
        res.index = 1

\* C16: every AppearanceOptions object a caller or the Factory holds is the
\* success value of an AppearanceOptions::create call.
C16_OnlyFromCreate ==
    /\ opts.exists => opts.origin = "create"
    /\ builder.exists => builder.origin = "create"

\* the object a setter call was made on
Target(o) == IF o.who = "builder" THEN get_appearance_options(builder) ELSE opts

\* C17: set_background_colour(v) and set_text_colour(v) validate nothing:
\* for every v, declared or not, the call raises nothing and the
\* corresponding getter then reports v.
C17_SettersDoNotValidate ==
    /\ rop.op = "set_background_colour" =>
          (rop.raised = "none" /\ get_background_colour(Target(rop)) = rop.background)
    /\ rop.op = "set_text_colour" =>
          (rop.raised = "none" /\ get_text_colour(Target(rop)) = rop.text)

C17_Witness ==
    /\ rop.op = "set_background_colour" /\ rop.who = "builder"
    /\ rop.background = COUNT
    /\ get_background_colour(get_appearance_options(builder)) = COUNT
    /\ get_text_colour(get_appearance_options(builder)) = 0 - 1

ExtentProduct(size) == IF Size_dims(size) = 1 THEN size.m_length ELSE rows(size) * cols(size)

\* C19: for every static shape, of one dimension as of two, an array of
\* that shape has fixed storage whose length is the product of the shape's
\* extents (Rows * Cols, and Length for a one-dimensional shape).
C19_StaticStorageLength ==
    (inst.type # NoStorage /\ inst.Size.static) =>
        (inst.type.kind = "std::array" /\ inst.type.N = ExtentProduct(inst.Size))

\* C20: the storage kind follows from the shape kind alone: whatever the
\* element type and the extents, a dynamic shape yields growable storage
\* and a static shape fixed storage of the shape's element count.
C20_KindByShapeKind ==
    inst.type # NoStorage =>
        /\ ~inst.Size.static => inst.type.kind = "std::vector"
        /\ inst.Size.static =>
              (inst.type.kind = "std::array" /\ inst.type.N = ExtentProduct(inst.Size))
        /\ inst.type.T = inst.T

C22_CopyIndependent ==
    [][ /\ (nw' = nw /\ other' # other) =>
              /\ other'.exists
              /\ other'.m_size = m_size /\ other'.m_data = m_data
              /\ m_size' = m_size /\ m_data' = m_data
        /\ (nw' = nw /\ m_data' # m_data) =>
              /\ m_size' = other.m_size /\ m_data' = other.m_data
              /\ other' = other
        /\ (nw' = nw + 1 /\ other.exists) =>
              /\ m_data' # m_data => other' = other
              /\ other' # other => (m_data' = m_data /\ m_size' = m_size) ]_vars

C22_Witness ==
    /\ other.exists /\ Len(m_data) >= 2
    /\ nw = MaxWrites
    /\ other.m_data[1] # ValueInit /\ m_data[1] = ValueInit
    /\ m_data[2] # ValueInit /\ other.m_data[2] = ValueInit

\* C23: to_string<T>() is defined for each of int, uint8_t, uint32_t,
\* float, double and RGBA, gives the same string for the same type and
\* different strings for different types, and is rejected for every other
\* type.
C23_NamesDistinct ==
    (names.s1 # "none" /\ names.s2 # "none") =>
        /\ names.T1 \in {"int", "uint8_t", "uint32_t", "float", "double", "RGBA"}
              => names.s1 # "ill-formed"
        /\ names.T1 \notin {"int", "uint8_t", "uint32_t", "float", "double", "RGBA"}
              => names.s1 = "ill-formed"
        /\ (names.s1 # "ill-formed" /\ names.s2 # "ill-formed") =>
              (names.s1 = names.s2 <=> names.T1 = names.T2)

C23_Witness ==
    /\ names.T1 = "float" /\ names.T2 = "double"
    /\ names.s1 = "float" /\ names.s2 = "double"

\* C24: the allowed set and the name table are in sync: a build of the
\* header as it is succeeds, and a build in which a type of the allowed set
\* has no name is a fault, whether the test switch is on or off.
C24_SetAndNamesInSync ==
    build.outcome # "none" =>
        /\ (\A T \in build.types : NameChain(T) # "ill-formed") => build.outcome = "ok"
        /\ (\E T \in build.types : NameChain(T) = "ill-formed") => build.outcome = "fault"

C26_InPlaceOutputPrepared ==
    plot.op = "in_place" =>
        /\ plot.m_size = plot.target
        /\ Len(plot.m_data) = nele(plot.target)
        /\ \A k \in 1 .. Len(plot.m_data) : plot.m_data[k] = ValueInit

C28_FactoryOptionsFrame ==
    /\ [](rop.op = "Factory" =>
            /\ get_background_colour(get_appearance_options(builder)) = WHITE
            /\ get_text_colour(get_appearance_options(builder)) = BLACK)
    /\ [][(rop'.op = "set_background_colour" /\ rop'.who = "builder") =>
            /\ get_background_colour(get_appearance_options(builder')) = rop'.background
            /\ get_text_colour(get_appearance_options(builder'))
                  = get_text_colour(get_appearance_options(builder))]_vars
    /\ [][(rop'.op = "set_text_colour" /\ rop'.who = "builder") =>
            /\ get_text_colour(get_appearance_options(builder')) = rop'.text
            /\ get_background_colour(get_appearance_options(builder'))
                  = get_background_colour(get_appearance_options(builder))]_vars
    /\ [][rop'.op = "get_plot" => builder' = builder]_vars

C28_Witness ==
    /\ rop.op = "get_plot" /\ plot.op = "get_plot"
    /\ builder.exists
    /\ get_background_colour(get_appearance_options(builder)) = BLACK
    /\ get_text_colour(get_appearance_options(builder)) = WHITE

\* C29: a Params built as Params(number of series, series length) records
\* its first argument as the number of series and its second as the series
\* length.
C29_ParamsOrder ==
    params.exists =>
        /\ params.m_num_series = params.num_series
        /\ params.m_series_length = params.series_length

\* C30: for a dynamically shaped array of any extents r, c of the size type,
\* with the element count r*c taken modulo 2^SizeBits, every index pair with
\* row < r and col < c gives an offset below the storage length.
C30_WideInRangeInsideStorage ==
    (/\ last.op = "read"
     /\ ~m_size.static
     /\ last.row < rows(m_size)
     /\ last.col < cols(m_size)) =>
        /\ last.off = (last.row * cols(m_size) + last.col) % SizeMod
        /\ last.off < Len(m_data)

====
